---- MODULE Spec2Model ----
(***************************************************************************)
(* ReviewBuddy: provider selection and the review run (src/main.py,        *)
(* src/ai_integration.py, src/providers/*.py), the response parser         *)
(* (AIProvider._parse_response) and the static-analysis orchestrator       *)
(* (src/static_analysis.py).                                               *)
(*                                                                         *)
(* Texts are sequences of tokens.  A token is one character (" ", "\n",    *)
(* "1", ".", "-", ...) or one whole word ("Summary", "First", ...), so     *)
(* that split, strip, lstrip, index and the substring tests of the parser  *)
(* are computed on the text as the code computes them.                     *)
(***************************************************************************)
EXTENDS Integers, Sequences, FiniteSets, TLC

VARIABLES
    \* ---- the response parser (AIProvider._parse_response)
    ptext,      \* the response text handed to _parse_response
    presult,    \* what the call produced (NotCalled before the call)
    \* ---- the review run (main, get_ai_provider, analyze_pr)
    mpc,        \* position of main
    config,     \* the configuration dictionary (get_ai_provider mutates it)
    environ,    \* the REVIEWBUDDY_API_KEY environment variable
    static_analysis_results,
    selection,  \* what get_ai_provider did (returned provider or exception)
    ai_analysis,
    review_comment,
    calls,      \* the calls of main made so far, in order
    exit_status,
    \* ---- the static-analysis orchestrator (run_static_analysis)
    spc,        \* position of run_static_analysis
    sa_files,   \* the changed files of the pull request
    sa_config,  \* the 'static_analysis' section of the configuration
    workspace,  \* the temporary directory: existence and the files in it
    results,    \* the report being built: tool -> result
    todo,       \* the (language, tool) pairs still to dispatch
    dispatched, \* the dispatches made so far, with their outcome
    sa_effects, \* what the run did to the outside world
    \* ---- one call of a function of the program
    fn_args,    \* the function called and its arguments
    fn_result   \* what the call produced (NoResult before the call)

parseVars == <<ptext, presult>>
mainVars == <<mpc, config, environ, static_analysis_results, selection,
              ai_analysis, review_comment, calls, exit_status>>
saVars == <<spc, sa_files, sa_config, workspace, results, todo, dispatched,
            sa_effects>>
callVars == <<fn_args, fn_result>>
vars == <<parseVars, mainVars, saVars, callVars>>

None == "None"

\* no function is called
NoCall == [name |-> None]
NoResult == [called |-> FALSE]
CallIdle == fn_args = NoCall /\ fn_result = NoResult

-----------------------------------------------------------------------------
(* Text primitives: str.split('\n'), str.strip(), str.lstrip(chars),       *)
(* str.startswith, list.index, "kw in s.lower()".                          *)

Whitespace == {" ", "\t", "\r", "\n"}
Digits == {"0", "1", "2", "3", "4", "5", "6", "7", "8", "9"}
\* the argument of line.lstrip("- *0123456789. ")
TitleStripChars == {"-", " ", "*", "."} \cup Digits

\* The keywords a token contains once lowercased.
KeywordsOf(tok) ==
    CASE tok \in {"Summary", "summary", "SUMMARY"} -> {"summary"}
      [] tok \in {"Suggestions", "suggestions", "suggestion"} -> {"suggestion"}
      [] tok \in {"Issues", "issues", "issue"} -> {"issue"}
      [] OTHER -> {}

\* kw in s.lower()
Contains(s, kw) == \E i \in 1..Len(s) : kw \in KeywordsOf(s[i])

RECURSIVE SplitAcc(_, _, _, _)
SplitAcc(s, i, cur, acc) ==
    IF i > Len(s) THEN Append(acc, cur)
    ELSE IF s[i] = "\n" THEN SplitAcc(s, i + 1, <<>>, Append(acc, cur))
    ELSE SplitAcc(s, i + 1, Append(cur, s[i]), acc)

\* s.split('\n')
Split(s) == SplitAcc(s, 1, <<>>, <<>>)

RECURSIVE LStrip(_, _)
LStrip(s, chars) ==
    IF s # <<>> /\ Head(s) \in chars THEN LStrip(Tail(s), chars) ELSE s

RECURSIVE RStrip(_, _)
RStrip(s, chars) ==
    IF s # <<>> /\ s[Len(s)] \in chars
    THEN RStrip(SubSeq(s, 1, Len(s) - 1), chars)
    ELSE s

\* s.strip()
Strip(s) == RStrip(LStrip(s, Whitespace), Whitespace)

\* s.startswith(prefix)
StartsWith(s, prefix) ==
    Len(s) >= Len(prefix) /\ SubSeq(s, 1, Len(prefix)) = prefix

\* lines.index(x), 1-based; 0 stands for the ValueError of a missing element
IndexOf(lines, x) ==
    IF \E i \in 1..Len(lines) : lines[i] = x
    THEN CHOOSE i \in 1..Len(lines) :
             lines[i] = x /\ \A j \in 1..(i - 1) : lines[j] # x
    ELSE 0

\* whether sub occurs in s as a contiguous run of tokens
Occurs(sub, s) ==
    \E i \in 0..(Len(s) - Len(sub)) : SubSeq(s, i + 1, i + Len(sub)) = sub

-----------------------------------------------------------------------------
(* AIProvider._parse_response                                              *)

\* the inner loop, from line i on: the summary text collected
RECURSIVE SummaryScan(_, _, _)
SummaryScan(lines, i, summary) ==
    IF i > Len(lines) THEN summary
    ELSE IF Strip(lines[i]) = <<>> THEN SummaryScan(lines, i + 1, summary)
    ELSE IF Contains(lines[i], "issue") \/ Contains(lines[i], "suggestion")
         THEN summary
    ELSE SummaryScan(lines, i + 1, summary \o lines[i] \o <<" ">>)

\* line.startswith("- ") or line.startswith("* ") or
\* (line[0].isdigit() and line[1] == '.'): "IndexError" when line[1] is read
\* on a one-character line
BulletTest(line) ==
    IF StartsWith(line, <<"-", " ">>) \/ StartsWith(line, <<"*", " ">>)
    THEN "yes"
    ELSE IF line[1] \notin Digits THEN "no"
    ELSE IF Len(line) < 2 THEN "IndexError"
    ELSE IF line[2] = "." THEN "yes" ELSE "no"

\* the body of the loop for a line that is not blank (already stripped);
\* st.current is <<>> for None
ParseNonBlank(lines, line, st) ==
    LET trigger == Contains(line, "summary") /\ st.summary = <<>>
        at == IndexOf(lines, line)
    IN
    IF trigger /\ at = 0 THEN [st EXCEPT !.raised = "ValueError"]
    ELSE
      LET summary1 == IF trigger
                      THEN SummaryScan(lines, at + 1, st.summary)
                      ELSE st.summary
          bullet == BulletTest(line)
      IN
      IF bullet = "IndexError"
      THEN [st EXCEPT !.summary = summary1, !.raised = "IndexError"]
      ELSE IF bullet = "yes"
      THEN [st EXCEPT
              !.summary = summary1,
              !.suggestions = st.suggestions \o st.current,
              !.current = << [title |-> LStrip(line, TitleStripChars),
                              description |-> <<>>] >>]
      ELSE IF st.current # <<>>
      THEN [st EXCEPT
              !.summary = summary1,
              !.current = << [title |-> st.current[1].title,
                              description |->
                                  st.current[1].description \o line \o <<" ">>] >>]
      ELSE [st EXCEPT !.summary = summary1]

\* ParseLine without "if not line: continue": line[0] of an empty line
ParseLineNoSkip(lines, raw, st) ==
    IF Strip(raw) = <<>>
    THEN [st EXCEPT !.raised = "IndexError"]
    ELSE ParseNonBlank(lines, Strip(raw), st)

\* one iteration of "for line in lines"
ParseLine(lines, raw, st) ==
    IF Strip(raw) = <<>> THEN st ELSE ParseNonBlank(lines, Strip(raw), st)

RECURSIVE ParseLoop(_, _, _)
ParseLoop(lines, i, st) ==
    IF i > Len(lines) \/ st.raised # None THEN st
    ELSE ParseLoop(lines, i + 1, ParseLine(lines, lines[i], st))

\* _parse_response(response_text): the dictionary returned, or the
\* exception raised
ParseResponse(response_text) ==
    LET lines == Split(response_text)
        st == ParseLoop(lines, 1,
                        [summary |-> <<>>, suggestions |-> <<>>,
                         current |-> <<>>, raised |-> None])
    IN  IF st.raised # None
        THEN [raised |-> st.raised, summary |-> <<>>, suggestions |-> <<>>]
        ELSE [raised |-> None,
              summary |-> Strip(st.summary),
              suggestions |-> st.suggestions \o st.current]

-----------------------------------------------------------------------------
(* The inputs of the parser specification.                                 *)

MaxItems == 2       \* numbered items of a structured response
MaxIndent == 1      \* leading spaces put before every line
MaxBlankLen == 3    \* length of a whitespace-only response
MaxTextLen == 3     \* length of a free response

DigitOf == <<"1", "2", "3", "4", "5", "6", "7", "8", "9">>
OrdinalOf == <<"First", "Second", "Third">>

ItemTitle(i) ==
    <<IF i <= Len(OrdinalOf) THEN OrdinalOf[i] ELSE "Next", " ", "title">>
ItemBody(i) ==
    <<IF i <= Len(OrdinalOf) THEN OrdinalOf[i] ELSE "Next", " ",
      "description", ".">>

RECURSIVE Spaces(_)
Spaces(k) == IF k = 0 THEN <<>> ELSE <<" ">> \o Spaces(k - 1)

SummaryLines ==
    { <<"This", " ", "is", " ", "a", " ", "test", " ", "summary", ".">>,
      <<"Adds", " ", "a", " ", "parser", ".">> }

\* the shapes of a structured response: indentation of every line, '# '
\* before the headings, the summary line, the number of summary lines, the
\* number of items, blank lines between the blocks
Shapes ==
    [indent : 0..MaxIndent, hash : BOOLEAN, sline : SummaryLines,
     nsum : 1..2, n : 0..MaxItems, blank : BOOLEAN]

RECURSIVE Repeat(_, _)
Repeat(s, k) == IF k = 0 THEN <<>> ELSE s \o Repeat(s, k - 1)

RECURSIVE ItemsText(_, _, _)
ItemsText(p, i, ind) ==
    IF i > p.n THEN <<>>
    ELSE (IF p.blank /\ i > 1 THEN <<"\n">> ELSE <<>>)
         \o ind \o <<DigitOf[i], ".", " ">> \o ItemTitle(i) \o <<"\n">>
         \o ind \o Spaces(3) \o ItemBody(i) \o <<"\n">>
         \o ItemsText(p, i + 1, ind)

\* heading with 'Summary', summary lines, heading with 'Suggestions', then
\* the numbered items, each followed by its description line
StructuredText(p) ==
    LET ind == Spaces(p.indent)
        h == IF p.hash THEN <<"#", " ">> ELSE <<>>
    IN  ind \o h \o <<"Summary", "\n">>
        \o Repeat(ind \o p.sline \o <<"\n">>, p.nsum)
        \o (IF p.blank THEN <<"\n">> ELSE <<>>)
        \o ind \o h \o <<"Suggestions", "\n">>
        \o ItemsText(p, 1, ind)

RECURSIVE SeqsUpTo(_, _)
SeqsUpTo(S, k) ==
    IF k = 0 THEN {<<>>}
    ELSE LET shorter == SeqsUpTo(S, k - 1)
         IN  shorter \cup {Append(s, x) : s \in shorter, x \in S}

BlankChars == {" ", "\t", "\r", "\n"}
BlankTexts == SeqsUpTo(BlankChars, MaxBlankLen)

TextAlphabet == {" ", "\n", "1", ".", "-", "Summary", "a", "Issues"}
FreeTexts == SeqsUpTo(TextAlphabet, MaxTextLen)

\* the ways a bullet line starts
BulletMarkers ==
    { <<"-", " ">>, <<"*", " ">>, <<"1", ".", " ">>, <<"1", ".">> }

\* texts of a bullet: beginning with a digit, '-', '*', '.', or a word
BulletBodies ==
    { <<"2", "nd", " ", "pass", " ", "needed">>,
      <<"-", "1", " ", "is", " ", "returned">>,
      <<"*", "args", " ", "is", " ", "unused">>,
      <<".", "gitignore", " ", "is", " ", "missing">>,
      <<"Rename", " ", "x">> }

\* a response of one bullet line, alone or followed by a line of text
BulletTexts ==
    { m \o b \o t : m \in BulletMarkers, b \in BulletBodies,
                    t \in {<<>>, <<"\n", "See", " ", "below", ".">>} }

ParseInputs ==
    {StructuredText(p) : p \in Shapes} \cup BlankTexts \cup FreeTexts
        \cup BulletTexts

NotCalled == [raised |-> "NotCalled", summary |-> <<>>, suggestions |-> <<>>]

ParseIdle == ptext = <<>> /\ presult = NotCalled

ParseInit == ptext \in ParseInputs /\ presult = NotCalled

\* the call _parse_response(ptext)
Parse ==
    /\ presult = NotCalled
    /\ presult' = ParseResponse(ptext)
    /\ UNCHANGED <<ptext, mainVars, saVars, callVars>>

-----------------------------------------------------------------------------
(* Provider selection: get_ai_provider, APIProvider.__init__,              *)
(* OllamaProvider.__init__.  A dictionary key that is absent, or whose     *)
(* value is None, reads as None; "not x" is x = None.                      *)

\* None: the configuration has no 'model_provider' key
ProviderKinds == {"api", "ollama", "invalid", "Ollama", None}
\* the 'api' section: present or not, and the values of its keys
ApiSections ==
    {[present |-> FALSE, api_key |-> None, api_url |-> None,
      api_endpoint |-> None, model_name |-> None]}
    \cup [present : {TRUE}, api_key : {None, "cfg-key"},
          api_url : {None, "url"}, api_endpoint : {None},
          model_name : {None}]
\* the 'ollama' section, absent
NoOllamaSection == [present |-> FALSE, base_url |-> None, ollama_model |-> None]
Configs ==
    [model_provider : ProviderKinds, api : ApiSections,
     ollama : {NoOllamaSection}]
EnvKeys == {None, "env-key"}
ProbeOutcomes == {"ok", "network_error", "timeout", "bad_status"}

\* config.get('model_provider', 'api')
ProviderType(cfg) ==
    IF cfg.model_provider = None THEN "api" ELSE cfg.model_provider

\* config.get('api', {}): the section, {} when the key is absent
ApiSection(cfg) ==
    [api_key |-> cfg.api.api_key, api_url |-> cfg.api.api_url,
     api_endpoint |-> cfg.api.api_endpoint, model_name |-> cfg.api.model_name]

\* config.get('ollama', {})
OllamaSection(cfg) ==
    [base_url |-> cfg.ollama.base_url, ollama_model |-> cfg.ollama.ollama_model]

\* a provider: its class, the names of its attributes and their values
NoProvider ==
    [class |-> None, attributes |-> {}, api_key |-> None, api_url |-> None,
     base_url |-> None, model_name |-> None]

\* APIProvider(section): the instance, or the ValueError of __init__
APIProviderInit(section) ==
    IF section.api_key = None \/ section.api_url = None
    THEN [raised |-> "ValueError", provider |-> NoProvider]
    ELSE [raised |-> None,
          provider |-> [class |-> "APIProvider",
                        attributes |-> {"config", "api_key", "api_url",
                                        "model_name"},
                        api_key |-> section.api_key,
                        api_url |-> section.api_url,
                        base_url |-> None,
                        model_name |-> IF section.model_name = None
                                       THEN "gpt-4" ELSE section.model_name]]

\* an OllamaProvider that takes the values of the defaults whatever the
\* section holds
OllamaProviderDefaults(section) ==
    [raised |-> None,
     provider |-> [class |-> "OllamaProvider",
                   attributes |-> {"config", "base_url", "model_name",
                                   "timeout"},
                   api_key |-> None, api_url |-> None,
                   base_url |-> "http://localhost:11434",
                   model_name |-> "llama3"]]

\* OllamaProvider(section): never raises
OllamaProviderInit(section) ==
    [raised |-> None,
     provider |-> [class |-> "OllamaProvider",
                   attributes |-> {"config", "base_url", "model_name",
                                   "timeout"},
                   api_key |-> None, api_url |-> None,
                   base_url |-> IF section.base_url = None
                                THEN "http://localhost:11434"
                                ELSE section.base_url,
                   model_name |-> IF section.ollama_model = None
                                  THEN "llama3" ELSE section.ollama_model]]

\* the 'api' branch of get_ai_provider (lines 38-50), entered directly or
\* after the probe failed
SelectApi(cfg, env, probed) ==
    LET configured == ApiSection(cfg).api_key
        from_env == configured = None /\ env # None
    IN  IF from_env /\ ~cfg.api.present
        THEN \* config['api']['api_key'] = api_key with no 'api' section
             [raised |-> "KeyError", provider |-> NoProvider, probed |-> probed,
              env_read |-> TRUE, constructed |-> {}, config |-> cfg]
        ELSE LET cfg1 == IF from_env
                         THEN [cfg EXCEPT !.api.api_key = env]
                         ELSE cfg
                 made == APIProviderInit(ApiSection(cfg1))
             IN  [raised |-> made.raised, provider |-> made.provider,
                  probed |-> probed, env_read |-> configured = None,
                  constructed |-> {"APIProvider"}, config |-> cfg1]

\* get_ai_provider that falls back to 'api' for an unknown provider kind,
\* as validate_config does
GetAiProviderDefaulting(cfg, env, probe) ==
    IF ProviderType(cfg) = "ollama"
    THEN IF probe = "ok"
         THEN [raised |-> None, provider |->
                   OllamaProviderInit(OllamaSection(cfg)).provider,
               probed |-> TRUE, env_read |-> FALSE,
               constructed |-> {"OllamaProvider"}, config |-> cfg]
         ELSE SelectApi(cfg, env, TRUE)
    ELSE SelectApi(cfg, env, FALSE)

\* get_ai_provider(config), with the environment variable and the outcome
\* of the availability probe, if one is made
GetAiProvider(cfg, env, probe) ==
    LET provider_type == ProviderType(cfg)
    IN  IF provider_type = "ollama"
        THEN IF probe = "ok"
             THEN [raised |-> None, provider |->
                   OllamaProviderInit(OllamaSection(cfg)).provider,
                   probed |-> TRUE, env_read |-> FALSE,
                   constructed |-> {"OllamaProvider"}, config |-> cfg]
             ELSE SelectApi(cfg, env, TRUE)
        ELSE IF provider_type = "api"
        THEN SelectApi(cfg, env, FALSE)
        ELSE [raised |-> "ValueError", provider |-> NoProvider,
              probed |-> FALSE, env_read |-> FALSE, constructed |-> {},
              config |-> cfg]

-----------------------------------------------------------------------------
(* analyze_pr of both providers.  A review dictionary is the set of its    *)
(* keys with the values of 'summary' and 'suggestions'; a suggestion is a  *)
(* dictionary {title, description} or a plain string.                      *)

RequestOutcomes ==
    {"ok", "network_error", "timeout", "bad_status", "invalid_json",
     "missing_field", "empty_choices"}

DictSuggestion(t, d) ==
    [is_dict |-> TRUE, title |-> t, description |-> d, text |-> <<>>]
StrSuggestion(x) ==
    [is_dict |-> FALSE, title |-> <<>>, description |-> <<>>, text |-> <<x>>]

\* the dictionary _parse_response returned
ParsedReview(r) ==
    [keys |-> {"summary", "suggestions"},
     summary |-> r.summary,
     suggestions |->
        [i \in 1..Len(r.suggestions) |->
            DictSuggestion(r.suggestions[i].title,
                           r.suggestions[i].description)]]

\* {'error': str(e)}
ErrorReview == [keys |-> {"error"}, summary |-> <<>>, suggestions |-> <<>>]

ManualGuidance ==
    <<StrSuggestion("Consider running local static analysis tools."),
      StrSuggestion("Check for potential security issues."),
      StrSuggestion("Verify code style and best practices.")>>

\* the dictionaries of OllamaProvider.analyze_pr's three handlers
OllamaFailure(summary) ==
    [keys |-> {"summary", "suggestions"}, summary |-> <<summary>>,
     suggestions |-> ManualGuidance]

\* the canned review of main (lines 53-75) and of _generate_mock_review
OfflineReview ==
    [keys |-> {"summary", "suggestions"},
     summary |-> <<"This is an automated review.">>,
     suggestions |->
        <<DictSuggestion(<<"Configure AI providers">>, <<"To get better reviews">>),
          DictSuggestion(<<"Review your code manually">>, <<"Without AI assistance">>)>>]

\* APIProvider.analyze_pr: text is the content of the first choice when the
\* request succeeds
APIAnalyzePr(provider, outcome, text) ==
    IF provider.api_key = None THEN OfflineReview
    ELSE IF outcome = "ok"
    THEN LET r == ParseResponse(text)
         IN  IF r.raised # None THEN ErrorReview ELSE ParsedReview(r)
    ELSE IF outcome = "missing_field"
    THEN \* .get('content', '') of a body without the field
         ParsedReview(ParseResponse(<<>>))
    ELSE ErrorReview

\* OllamaProvider.analyze_pr: text is the 'response' field when the request
\* succeeds
OllamaAnalyzePr(provider, outcome, text) ==
    IF outcome = "ok"
    THEN LET r == ParseResponse(text)
         IN  IF r.raised # None
             THEN OllamaFailure("Analysis failed. Please review changes manually.")
             ELSE ParsedReview(r)
    ELSE IF outcome = "timeout"
    THEN OllamaFailure("Analysis timed out. Please review changes manually.")
    ELSE IF outcome \in {"network_error", "bad_status", "invalid_json"}
    THEN OllamaFailure("Unable to analyze changes. Please review manually.")
    ELSE OllamaFailure("Analysis failed. Please review changes manually.")

AnalyzePrOf(provider, outcome, text) ==
    IF provider.class = "APIProvider"
    THEN APIAnalyzePr(provider, outcome, text)
    ELSE OllamaAnalyzePr(provider, outcome, text)

-----------------------------------------------------------------------------
(* GithubIntegration.format_review_comment                                 *)

\* the report of run_static_analysis is an insertion-ordered dictionary:
\* a sequence of entries [tool, language, issues], one per tool
ToolsWithIssues(report) ==
    {report[i].tool : i \in {j \in 1..Len(report) : report[j].issues # <<>>}}

\* the comment, or the exception of suggestion['title'] on a suggestion
\* that is no dictionary
FormatReviewComment(report, ai) ==
    LET summary == IF "summary" \in ai.keys
                   THEN ai.summary ELSE <<"No summary available">>
        suggestions == IF "suggestions" \in ai.keys
                       THEN ai.suggestions ELSE <<>>
    IN  IF \E i \in 1..Len(suggestions) : ~suggestions[i].is_dict
        THEN [raised |-> "TypeError", summary |-> <<>>, titles |-> <<>>,
              tools |-> {}]
        ELSE [raised |-> None, summary |-> summary,
              titles |-> [i \in 1..Len(suggestions) |-> suggestions[i].title],
              tools |-> ToolsWithIssues(report)]

-----------------------------------------------------------------------------
(* main                                                                    *)

SampleIssue ==
    [file |-> "a.py", line |-> 1, message |-> "unused import",
     severity |-> "warning"]

\* reports run_static_analysis may hand to main
SampleReports ==
    { <<>>,
      <<[tool |-> "pylint", language |-> "python", issues |-> <<>>]>>,
      <<[tool |-> "pylint", language |-> "python",
         issues |-> <<SampleIssue>>]>> }

\* texts the model may answer with
ReviewTexts ==
    { <<>>, <<"1">>, <<"a">>,
      StructuredText([indent |-> 0, hash |-> FALSE,
                      sline |-> <<"Adds", " ", "a", " ", "parser", ".">>,
                      nsum |-> 1, n |-> 2, blank |-> TRUE]),
      StructuredText([indent |-> 1, hash |-> TRUE,
                      sline |-> <<"Adds", " ", "a", " ", "parser", ".">>,
                      nsum |-> 1, n |-> 1, blank |-> FALSE]) }

NotSelected ==
    [raised |-> "NotCalled", provider |-> NoProvider, probed |-> FALSE,
     env_read |-> FALSE, constructed |-> {}, config |-> None]

NoComment ==
    [raised |-> "NotCalled", summary |-> <<>>, titles |-> <<>>, tools |-> {}]

Call(name, outcome) == [name |-> name, outcome |-> outcome]
Called(name) == \E i \in 1..Len(calls) : calls[i].name = name
OutcomeOf(name) ==
    calls[CHOOSE i \in 1..Len(calls) : calls[i].name = name].outcome

StartupOutcomes ==
    {"ok", "no_token", "config_error", "no_pr_number", "pr_files_error"}

MainIdle ==
    /\ mpc = "idle"
    /\ config = None
    /\ environ = None
    /\ static_analysis_results = <<>>
    /\ selection = NotSelected
    /\ ai_analysis = OfflineReview
    /\ review_comment = NoComment
    /\ calls = <<>>
    /\ exit_status = "running"

MainInit ==
    /\ mpc = "start"
    /\ config \in Configs
    /\ environ \in EnvKeys
    /\ static_analysis_results = <<>>
    /\ selection = NotSelected
    /\ ai_analysis = OfflineReview
    /\ review_comment = NoComment
    /\ calls = <<>>
    /\ exit_status = "running"

\* sys.exit(1)
Exit1 == mpc' = "done" /\ exit_status' = "failure"

\* lines 22-43: the token, GithubIntegration, load_config, get_pr_number,
\* get_pr_files
Startup ==
    /\ mpc = "start"
    /\ \E o \in StartupOutcomes :
         IF o = "ok"
         THEN /\ mpc' = "static"
              /\ calls' = Append(calls, Call("get_pr_files", "returned"))
              /\ UNCHANGED exit_status
         ELSE /\ Exit1
              /\ calls' = IF o = "pr_files_error"
                          THEN Append(calls, Call("get_pr_files", "raised"))
                          ELSE calls
    /\ UNCHANGED <<config, environ, static_analysis_results, selection,
                   ai_analysis, review_comment>>
    /\ UNCHANGED <<parseVars, saVars, callVars>>

\* lines 45-50: run_static_analysis inside its try
RunStaticAnalysis ==
    /\ mpc = "static"
    /\ \/ /\ static_analysis_results' \in SampleReports
          /\ calls' = Append(calls, Call("run_static_analysis", "returned"))
       \/ \* it raised: the list of line 46 stays
          /\ static_analysis_results' = <<>>
          /\ calls' = Append(calls, Call("run_static_analysis", "raised"))
    /\ mpc' = "select"
    /\ UNCHANGED <<config, environ, selection, ai_analysis, review_comment,
                   exit_status>>
    /\ UNCHANGED <<parseVars, saVars, callVars>>

\* line 78: get_ai_provider(config) inside the try of lines 77-81
SelectProvider ==
    /\ mpc = "select"
    /\ \E probe \in ProbeOutcomes :
         LET sel == GetAiProvider(config, environ, probe)
         IN  /\ selection' = sel
             /\ config' = sel.config
             /\ mpc' = IF sel.raised = None THEN "analyze" ELSE "format"
             /\ calls' = Append(calls,
                    Call("get_ai_provider",
                         IF sel.probed THEN probe ELSE "no_probe"))
    /\ UNCHANGED <<environ, static_analysis_results, ai_analysis,
                   review_comment, exit_status>>
    /\ UNCHANGED <<parseVars, saVars, callVars>>

\* line 79: ai_provider.analyze_pr(diff_content, files)
AnalyzePr ==
    /\ mpc = "analyze"
    /\ \E outcome \in RequestOutcomes :
         \E text \in IF outcome = "ok" THEN ReviewTexts ELSE {<<>>} :
           /\ ai_analysis' = AnalyzePrOf(selection.provider, outcome, text)
           /\ calls' = Append(calls,
                  Call("analyze_pr",
                       IF outcome = "ok" /\ ParseResponse(text).raised # None
                       THEN "malformed_text" ELSE outcome))
    /\ mpc' = "format"
    /\ UNCHANGED <<config, environ, static_analysis_results, selection,
                   review_comment, exit_status>>
    /\ UNCHANGED <<parseVars, saVars, callVars>>

\* line 84: format_review_comment; its exception reaches the handlers of
\* lines 91-99
FormatComment ==
    /\ mpc = "format"
    /\ LET c == FormatReviewComment(static_analysis_results, ai_analysis)
       IN  /\ review_comment' = c
           /\ IF c.raised = None
              THEN mpc' = "post" /\ UNCHANGED exit_status
              ELSE Exit1
    /\ calls' = Append(calls, Call("format_review_comment",
                                   IF review_comment'.raised = None
                                   THEN "returned" ELSE "raised"))
    /\ UNCHANGED <<config, environ, static_analysis_results, selection,
                   ai_analysis>>
    /\ UNCHANGED <<parseVars, saVars, callVars>>

\* line 87: post_review_comment, which re-raises what GitHub answers
PostComment ==
    /\ mpc = "post"
    /\ mpc' = "done"
    /\ \E o \in {"returned", "raised"} :
         /\ exit_status' = IF o = "returned" THEN "success" ELSE "failure"
         /\ calls' = Append(calls, Call("post_review_comment", o))
    /\ UNCHANGED <<config, environ, static_analysis_results, selection,
                   ai_analysis, review_comment>>
    /\ UNCHANGED <<parseVars, saVars, callVars>>

MainNext ==
    \/ Startup
    \/ RunStaticAnalysis
    \/ SelectProvider
    \/ AnalyzePr
    \/ FormatComment
    \/ PostComment

-----------------------------------------------------------------------------
(* Severities: map_pylint_severity, map_eslint_severity,                   *)
(* is_severity_included                                                    *)

Severities == {"error", "warning", "info"}

\* the ways a severity word is written, and words that are no severity
SpellingsOf(word) ==
    CASE word = "error" -> {"error", "Error", "ERROR"}
      [] word = "warning" -> {"warning", "Warning", "WARNING"}
      [] word = "info" -> {"info", "Info", "INFO"}
      [] word = "fatal" -> {"fatal", "Fatal", "FATAL"}
      [] OTHER -> {word}

SeverityWords ==
    UNION {SpellingsOf(w) : w \in Severities \cup {"fatal"}} \cup {""}

\* str.lower() on these words
Lower(x) ==
    CASE x \in {"Error", "ERROR"} -> "error"
      [] x \in {"Warning", "WARNING"} -> "warning"
      [] x \in {"Info", "INFO"} -> "info"
      [] x \in {"Fatal", "FATAL"} -> "fatal"
      [] OTHER -> x

\* mapping.get(pylint_type.lower(), 'info')
MapPylintSeverity(pylint_type) ==
    CASE Lower(pylint_type) \in {"fatal", "error"} -> "error"
      [] Lower(pylint_type) = "warning" -> "warning"
      [] Lower(pylint_type) \in {"convention", "refactor", "info"} -> "info"
      [] OTHER -> "info"

MapEslintSeverity(eslint_severity) ==
    CASE eslint_severity = "0" -> "info"
      [] eslint_severity = "1" -> "warning"
      [] eslint_severity = "2" -> "error"
      [] OTHER -> "info"

\* severity_levels.get(x, 0): the lookup on the word as written
SeverityLevelAsWritten(x) ==
    CASE x = "error" -> 3
      [] x = "warning" -> 2
      [] x = "info" -> 1
      [] OTHER -> 0

\* severity_levels.get(x.lower(), 0)
SeverityLevel(x) ==
    CASE Lower(x) = "error" -> 3
      [] Lower(x) = "warning" -> 2
      [] Lower(x) = "info" -> 1
      [] OTHER -> 0

\* a filter that lets every severity pass
IsSeverityIncludedAlways(severity, threshold) == TRUE

IsSeverityIncluded(severity, threshold) ==
    SeverityLevel(severity) >= SeverityLevel(threshold)

-----------------------------------------------------------------------------
(* The changed files and the workspace                                     *)

MaxFiles == 2       \* changed files of a pull request
MaxFindings == 1    \* findings in one tool's output

FileNames == {"a.py", "b.js", "c.ts", "d.md"}

\* filename.split('.')[-1].lower()
ExtOf(filename) ==
    CASE filename = "a.py" -> "py"
      [] filename = "b.js" -> "js"
      [] filename = "c.ts" -> "ts"
      [] OTHER -> "md"

\* the extensions table of group_files_by_language; None for no entry
LanguageOfExt(ext) ==
    CASE ext = "py" -> "python"
      [] ext \in {"js", "jsx"} -> "javascript"
      [] ext \in {"ts", "tsx"} -> "typescript"
      [] OTHER -> None

\* what a file of the pull request is like: its status, and where its
\* content comes from ("unwritable": open(file_path, 'w') fails)
FileKinds ==
    { [status |-> "removed", source |-> "none"],
      [status |-> "modified", source |-> "raw_url_ok"],
      [status |-> "modified", source |-> "raw_url_fails"],
      [status |-> "added", source |-> "content"],
      [status |-> "added", source |-> "none"],
      [status |-> "modified", source |-> "unwritable"] }

FileRecords ==
    { [filename |-> n, status |-> k.status, source |-> k.source] :
        n \in FileNames, k \in FileKinds }

\* lists of files with distinct names
FileLists ==
    { fs \in SeqsUpTo(FileRecords, MaxFiles) :
        \A i, j \in 1..Len(fs) : i # j => fs[i].filename # fs[j].filename }

RECURSIVE GroupAcc(_, _, _)
GroupAcc(files, i, acc) ==
    IF i > Len(files) THEN acc
    ELSE LET language == LanguageOfExt(ExtOf(files[i].filename))
             at == {k \in 1..Len(acc) : acc[k].language = language}
         IN  IF language = None THEN GroupAcc(files, i + 1, acc)
             ELSE IF at = {}
             THEN GroupAcc(files, i + 1,
                           Append(acc, [language |-> language,
                                        files |-> <<files[i].filename>>]))
             ELSE LET k == CHOOSE k \in at : TRUE
                  IN  GroupAcc(files, i + 1,
                               [acc EXCEPT ![k].files =
                                   Append(@, files[i].filename)])

\* group_files_by_language: the languages in order of first appearance,
\* each with its file names (removed files included)
GroupFilesByLanguage(files) == GroupAcc(files, 1, <<>>)

\* no .eslintrc.json written by run_eslint
NoEslintrc == [extends |-> <<>>, parser |-> None, plugins |-> {}]

\* eslintrc is the content of the .eslintrc.json that run_eslint wrote in
\* the directory
NoWorkspace ==
    [created |-> FALSE, exists |-> FALSE, files |-> {},
     eslintrc |-> NoEslintrc]

\* tempfile.TemporaryDirectory().__enter__
CreateWorkspace ==
    [created |-> TRUE, exists |-> TRUE, files |-> {},
     eslintrc |-> NoEslintrc]

\* a cleanup that runs only when the block ends without an exception
ExitWorkspaceOnSuccessOnly(ws, raised) ==
    IF raised THEN ws
    ELSE [ws EXCEPT !.exists = FALSE, !.files = {},
              !.eslintrc = NoEslintrc]

\* the end of the "with tempfile.TemporaryDirectory()" block, reached by a
\* return or by an exception
ExitWorkspace(ws, raised) ==
    [ws EXCEPT !.exists = FALSE, !.files = {},
              !.eslintrc = NoEslintrc]

RECURSIVE DownloadAcc(_, _, _)
DownloadAcc(files, i, acc) ==
    IF i > Len(files) \/ acc.raised THEN acc
    ELSE LET f == files[i] IN
         IF f.status = "removed" THEN DownloadAcc(files, i + 1, acc)
         ELSE IF f.source = "unwritable"
         THEN [acc EXCEPT !.raised = TRUE]
         ELSE \* open(file_path, 'w') has created the file before the
              \* content is fetched or found missing
              DownloadAcc(files, i + 1,
                  [acc EXCEPT
                     !.present = @ \cup {f.filename},
                     !.fetched = IF f.source \in {"raw_url_ok", "raw_url_fails"}
                                 THEN @ \cup {f.filename} ELSE @])

\* download_files: the files then present in the workspace, the files a
\* fetch was made for, and whether an exception escaped
DownloadFiles(files) ==
    DownloadAcc(files, 1, [present |-> {}, fetched |-> {}, raised |-> FALSE])

-----------------------------------------------------------------------------
(* The tool adapters and run_tool                                          *)

Tools == {"pylint", "flake8", "eslint", "mypy"}

\* where a tool says a finding is: the workspace path, a path already
\* relative, the same directory under another absolute prefix, or the
\* workspace path behind a further prefix
PathRoots == {"workspace", "relative", "alias", "nested"}

\* the workspace directory, as tempfile.TemporaryDirectory() names it
TempDir == "/tmp/ws"

\* a path is the sequence of its parts: directories written from the root,
\* separators and the name of the file
PathOf(root, name) ==
    CASE root = "workspace" -> <<TempDir, "/", name>>
      [] root = "relative" -> <<name>>
      [] root = "alias" -> <<"/mnt/ws", "/", name>>
      [] root = "nested" -> <<"/private", TempDir, "/", name>>

\* str.replace(old, ''): every occurrence of old is removed
RECURSIVE RemoveAll(_, _)
RemoveAll(s, old) ==
    IF Len(s) < Len(old) THEN s
    ELSE IF SubSeq(s, 1, Len(old)) = old
    THEN RemoveAll(SubSeq(s, Len(old) + 1, Len(s)), old)
    ELSE <<Head(s)>> \o RemoveAll(Tail(s), old)

\* path.replace(temp_dir + '/', '')
NormalizePath(path) == RemoveAll(path, <<TempDir, "/">>)

PylintTypes ==
    {"fatal", "error", "warning", "convention", "refactor", "info", "usage"}
EslintSeverities == {"0", "1", "2", "3"}

NativeSeverities(tool) ==
    CASE tool = "pylint" -> PylintTypes
      [] tool = "eslint" -> EslintSeverities
      [] OTHER -> {"none"}

\* the findings a tool may report on the files given to it: each native
\* severity on a workspace path, and each way of writing the path
NativeFindings(tool, paths) ==
    { [path |-> PathOf("workspace", n), native |-> v] :
        n \in paths, v \in NativeSeverities(tool) }
    \cup
    { [path |-> PathOf(r, n),
       native |-> CHOOSE v \in NativeSeverities(tool) : TRUE] :
        r \in PathRoots, n \in paths }

\* one finding per file, of the tool's highest severity
PlainFindings(tool, paths) ==
    { [path |-> PathOf("workspace", n),
       native |-> CASE tool = "pylint" -> "error"
                    [] tool = "eslint" -> "2"
                    [] OTHER -> "none"] : n \in paths }

FindingsOf(detail, tool, paths) ==
    IF detail = "native"
    THEN NativeFindings(tool, paths) ELSE PlainFindings(tool, paths)

\* what running the subprocess and reading its output comes to
OutcomeKinds ==
    {"cannot_start", "no_output", "invalid_json", "output", "bad_record"}

FailureKinds == {"cannot_start", "invalid_json", "bad_record"}

\* no subprocess is started
NotRun == [kind |-> "not_run", findings |-> <<>>]

\* the outcomes of a tool whose output holds findings of the given set
ToolOutcomes(findings) ==
    { [kind |-> k, findings |-> <<>>] :
        k \in {"cannot_start", "no_output", "invalid_json"} }
    \cup
    { [kind |-> k, findings |-> fs] :
        k \in {"output", "bad_record"},
        fs \in SeqsUpTo(findings, MaxFindings) }

Issue(finding, severity) ==
    [file |-> NormalizePath(finding.path), line |-> 1,
     message |-> "finding", severity |-> severity]

RECURSIVE IssuesAcc(_, _, _, _, _)
IssuesAcc(tool, findings, threshold, i, acc) ==
    IF i > Len(findings) THEN acc
    ELSE LET severity ==
                 CASE tool = "pylint" ->
                          MapPylintSeverity(findings[i].native)
                   [] tool = "eslint" ->
                          MapEslintSeverity(findings[i].native)
                   [] OTHER -> "warning"
         IN  IssuesAcc(tool, findings, threshold, i + 1,
                       IF IsSeverityIncluded(severity, threshold)
                       THEN Append(acc, Issue(findings[i], severity))
                       ELSE acc)

\* the files of file_list that exist in the workspace
ExistingPaths(file_list, ws) ==
    {file_list[i] : i \in {j \in 1..Len(file_list) : file_list[j] \in ws.files}}

\* the names run_eslint looks for in the workspace root
EslintrcNames == {".eslintrc", ".eslintrc.js", ".eslintrc.json", ".eslintrc.yml"}

\* run_eslint writes .eslintrc.json when it finds none of them
EslintrcWritten(tool, ws) ==
    IF tool = "eslint" /\ ws.files \cap EslintrcNames = {}
    THEN {".eslintrc.json"} ELSE {}

\* the dictionary of lines 284-303 that run_eslint dumps into
\* .eslintrc.json: the parser and the plugins it names, by language
Eslintrc(language) ==
    IF language = "typescript"
    THEN [extends |-> <<"eslint:recommended",
                        "plugin:@typescript-eslint/recommended">>,
          parser |-> "@typescript-eslint/parser",
          plugins |-> {"@typescript-eslint"}]
    ELSE [extends |-> <<"eslint:recommended">>,
          parser |-> None,
          plugins |-> {}]

\* the configuration in the workspace when run_eslint starts eslint
EslintrcAtStart(language, ws) ==
    IF EslintrcWritten("eslint", ws) # {} THEN Eslintrc(language)
    ELSE ws.eslintrc

\* an adapter without the test of lines 175-176: the tool is started on an
\* empty list of paths
RunAdapterUnconditional(tool, file_list, ws, threshold, outcome) ==
    [issues |-> IF outcome.kind \in {"cannot_start", "no_output", "invalid_json"}
                THEN <<>>
                ELSE IssuesAcc(tool, outcome.findings, threshold, 1, <<>>),
     started |-> TRUE,
     written |-> EslintrcWritten(tool, ws)]

\* run_pylint, run_flake8 and run_eslint: filter to the existing files,
\* return [] when there is none, else start the subprocess and read its
\* output; every exception is caught inside and the issues collected so
\* far are returned
RunAdapter(tool, file_list, ws, threshold, outcome) ==
    IF ExistingPaths(file_list, ws) = {}
    THEN [issues |-> <<>>, started |-> FALSE, written |-> {}]
    ELSE [issues |->
              IF outcome.kind \in {"cannot_start", "no_output", "invalid_json"}
              THEN <<>>
              ELSE IssuesAcc(tool, outcome.findings, threshold, 1, <<>>),
          started |-> TRUE,
          written |-> EslintrcWritten(tool, ws)]

\* run_tool whose handlers re-raise: an adapter failure escapes
RunToolPropagating(tool, language, file_list, ws, threshold, outcome) ==
    LET r == RunAdapter(tool, file_list, ws, threshold, outcome)
    IN  IF r.started /\ outcome.kind \in FailureKinds
        THEN [raised |-> TRUE, returned |-> <<>>, started |-> r.started,
              written |-> r.written]
        ELSE [raised |-> FALSE,
              returned |-> <<[tool |-> tool, language |-> language,
                              issues |-> r.issues]>>,
              started |-> r.started, written |-> r.written]

\* run_tool: the result dictionary (a one-element sequence), or None (the
\* empty sequence) for an empty file list or an unsupported tool
RunTool(tool, language, file_list, ws, threshold, outcome) ==
    IF file_list = <<>>
    THEN [raised |-> FALSE, returned |-> <<>>, started |-> FALSE,
          written |-> {}]
    ELSE IF \/ tool \in {"pylint", "flake8"} /\ language = "python"
            \/ tool = "eslint" /\ language \in {"javascript", "typescript"}
    THEN LET r == RunAdapter(tool, file_list, ws, threshold, outcome)
         IN  [raised |-> FALSE,
              returned |-> <<[tool |-> tool, language |-> language,
                              issues |-> r.issues]>>,
              started |-> r.started, written |-> r.written]
    ELSE [raised |-> FALSE, returned |-> <<>>, started |-> FALSE,
          written |-> {}]

-----------------------------------------------------------------------------
(* run_static_analysis                                                     *)

\* the 'tools' section: the tools of each language, in order ([] for a
\* language the section does not name)
ToolConfigs ==
    { [python |-> <<"pylint", "flake8">>, javascript |-> <<"eslint">>,
       typescript |-> <<"eslint">>],
      [python |-> <<"mypy", "pylint">>, javascript |-> <<>>,
       typescript |-> <<"eslint">>],
      [python |-> <<"flake8">>, javascript |-> <<"eslint">>,
       typescript |-> <<>>] }

SAConfigs ==
    [enabled : BOOLEAN, severity_threshold : Severities, tools : ToolConfigs]

\* the test of line 22 reads the flag as ignored
AnalysisAlwaysEnabled(cfg) == TRUE

\* config.get('static_analysis', {}).get('enabled', True)
AnalysisEnabled(cfg) == cfg.enabled

ToolsOf(cfg, language) ==
    CASE language = "python" -> cfg.tools.python
      [] language = "javascript" -> cfg.tools.javascript
      [] language = "typescript" -> cfg.tools.typescript
      [] OTHER -> <<>>

RECURSIVE PairsAcc(_, _, _)
PairsAcc(groups, cfg, i) ==
    IF i > Len(groups) THEN <<>>
    ELSE LET tools == ToolsOf(cfg, groups[i].language)
         IN  [k \in 1..Len(tools) |->
                 [language |-> groups[i].language, tool |-> tools[k],
                  file_list |-> groups[i].files]]
             \o PairsAcc(groups, cfg, i + 1)

\* the iterations of the two nested loops of lines 40-42, in order
DispatchPairs(files, cfg) == PairsAcc(GroupFilesByLanguage(files), cfg, 1)

\* results[tool] = tool_results on an insertion-ordered dictionary
SetEntry(report, entry) ==
    IF \E i \in 1..Len(report) : report[i].tool = entry.tool
    THEN [i \in 1..Len(report) |->
             IF report[i].tool = entry.tool THEN entry ELSE report[i]]
    ELSE Append(report, entry)

HasEntry(report, tool) == \E i \in 1..Len(report) : report[i].tool = tool
EntryOf(report, tool) ==
    report[CHOOSE i \in 1..Len(report) : report[i].tool = tool]

NoEffects == [fetched |-> {}, started |-> <<>>]

SAIdle ==
    /\ spc = "idle"
    /\ sa_files = <<>>
    /\ sa_config = None
    /\ workspace = NoWorkspace
    /\ results = <<>>
    /\ todo = <<>>
    /\ dispatched = <<>>
    /\ sa_effects = NoEffects

SAInit ==
    /\ spc = "start"
    /\ sa_files \in FileLists
    /\ sa_config \in SAConfigs
    /\ workspace = NoWorkspace
    /\ results = <<>>
    /\ todo = <<>>
    /\ dispatched = <<>>
    /\ sa_effects = NoEffects

\* lines 22-37: the enabled test, the grouping, the workspace and
\* download_files
SABegin ==
    /\ spc = "start"
    /\ IF ~AnalysisEnabled(sa_config)
       THEN /\ spc' = "returned"
            /\ UNCHANGED <<workspace, todo, sa_effects>>
       ELSE LET d == DownloadFiles(sa_files)
                ws == [CreateWorkspace EXCEPT !.files = d.present]
            IN  /\ sa_effects' = [sa_effects EXCEPT !.fetched = d.fetched]
                /\ IF d.raised
                   THEN /\ workspace' = ExitWorkspace(ws, TRUE)
                        /\ spc' = "raised"
                        /\ UNCHANGED todo
                   ELSE /\ workspace' = ws
                        /\ spc' = "tools"
                        /\ todo' = DispatchPairs(sa_files, sa_config)
    /\ UNCHANGED <<sa_files, sa_config, results, dispatched>>
    /\ UNCHANGED <<parseVars, mainVars, callVars>>

\* lines 43-45: one iteration of the inner loop, the tool reporting
\* findings of the given detail
SARunToolOn(detail) ==
    /\ spc = "tools"
    /\ todo # <<>>
    /\ LET p == Head(todo)
           paths == ExistingPaths(p.file_list, workspace)
       IN  \E outcome \in IF paths = {}
                           THEN {NotRun}
                           ELSE ToolOutcomes(FindingsOf(detail, p.tool, paths)) :
             LET r == RunTool(p.tool, p.language, p.file_list, workspace,
                              sa_config.severity_threshold, outcome)
             IN  /\ dispatched' =
                        Append(dispatched,
                               [language |-> p.language, tool |-> p.tool,
                                existing |-> paths, started |-> r.started,
                                failed |-> outcome.kind \in FailureKinds,
                                written |-> r.written,
                                eslintrc |->
                                    IF r.started /\ p.tool = "eslint"
                                    THEN EslintrcAtStart(p.language, workspace)
                                    ELSE NoEslintrc,
                                native |-> [k \in 1..Len(outcome.findings) |->
                                               outcome.findings[k].native],
                                returned |-> r.returned])
                 /\ sa_effects' =
                        IF r.started
                        THEN [sa_effects EXCEPT !.started =
                                 Append(@, [tool |-> p.tool,
                                            language |-> p.language])]
                        ELSE sa_effects
                 /\ IF r.raised
                    THEN /\ workspace' = ExitWorkspace(workspace, TRUE)
                         /\ spc' = "raised"
                         /\ UNCHANGED <<results, todo>>
                    ELSE /\ results' = IF r.returned # <<>>
                                       THEN SetEntry(results, r.returned[1])
                                       ELSE results
                         /\ todo' = Tail(todo)
                         /\ workspace' =
                                [workspace EXCEPT
                                   !.files = @ \cup r.written,
                                   !.eslintrc =
                                       IF r.written # {}
                                       THEN Eslintrc(p.language) ELSE @]
                         /\ UNCHANGED spc
    /\ UNCHANGED <<sa_files, sa_config>>
    /\ UNCHANGED <<parseVars, mainVars, callVars>>

\* the tool reports at most one finding per file, of its highest severity
SARunTool == SARunToolOn("plain")

\* the tool reports any finding: any native severity, any way of writing
\* the path
SARunToolAnyOutput == SARunToolOn("native")

\* line 47, after the with block has ended
SAReturn ==
    /\ spc = "tools"
    /\ todo = <<>>
    /\ workspace' = ExitWorkspace(workspace, FALSE)
    /\ spc' = "returned"
    /\ UNCHANGED <<sa_files, sa_config, results, todo, dispatched,
                   sa_effects>>
    /\ UNCHANGED <<parseVars, mainVars, callVars>>

SANext == SABegin \/ SARunTool \/ SAReturn

-----------------------------------------------------------------------------
(* The specifications                                                      *)

Init == MainInit /\ ParseIdle /\ SAIdle /\ CallIdle
Next == MainNext
\* a run of main
Spec == Init /\ [][Next]_vars

\* a call of _parse_response
ParseSpecInit == ParseInit /\ MainIdle /\ SAIdle /\ CallIdle
ParseNext == Parse
SpecParse == ParseSpecInit /\ [][ParseNext]_vars

\* a call of run_static_analysis
SASpecInit == SAInit /\ MainIdle /\ ParseIdle /\ CallIdle
SpecSA == SASpecInit /\ [][SANext]_vars

\* a call of run_static_analysis on one fetched file, the tools reporting
\* any finding
SAOutputInit ==
    /\ spc = "start"
    /\ sa_files \in { <<[filename |-> n, status |-> "modified",
                         source |-> "raw_url_ok"]>> : n \in FileNames }
    /\ sa_config \in SAConfigs
    /\ workspace = NoWorkspace
    /\ results = <<>>
    /\ todo = <<>>
    /\ dispatched = <<>>
    /\ sa_effects = NoEffects

SAOutputSpecInit == SAOutputInit /\ MainIdle /\ ParseIdle /\ CallIdle
SAOutputNext == SABegin \/ SARunToolAnyOutput \/ SAReturn
SpecSAOutput == SAOutputSpecInit /\ [][SAOutputNext]_vars

-----------------------------------------------------------------------------
(* utils/config.py.  A configuration dictionary is a function from the     *)
(* paths of its leaves ("api.model_name") to their values.                 *)

\* DEFAULT_CONFIG, built when the module is imported: 'api_key' holds what
\* the environment variable held then
DefaultConfig(env_at_import) ==
    [k \in {"model_provider", "api.model_name", "api.api_key", "api.api_url",
            "ollama.base_url", "ollama.ollama_model",
            "static_analysis.enabled", "static_analysis.severity_threshold",
            "static_analysis.tools"} |->
        CASE k = "model_provider" -> "api"
          [] k = "api.model_name" -> "gpt-4"
          [] k = "api.api_key" -> env_at_import
          [] k = "api.api_url" -> "https://api.openai.com/v1/chat/completions"
          [] k = "ollama.base_url" -> "http://localhost:11434"
          [] k = "ollama.ollama_model" -> "llama3"
          [] k = "static_analysis.enabled" -> "True"
          [] k = "static_analysis.severity_threshold" -> "warning"
          [] k = "static_analysis.tools" -> "python, javascript, typescript"]

\* get_default_config: DEFAULT_CONFIG.copy()
GetDefaultConfig(env_at_import) == DefaultConfig(env_at_import)

\* deep_merge(target, source), both with dictionaries in the same places:
\* the leaves of source override those of target
DeepMerge(target, source) ==
    [k \in DOMAIN target \cup DOMAIN source |->
        IF k \in DOMAIN source THEN source[k] ELSE target[k]]

\* what a configuration file may override
Overrides ==
    [k \in {"model_provider", "ollama.ollama_model",
            "static_analysis.severity_threshold", "static_analysis.enabled"} |->
        CASE k = "model_provider" -> "ollama"
          [] k = "ollama.ollama_model" -> "custom_model"
          [] k = "static_analysis.severity_threshold" -> "error"
          [] k = "static_analysis.enabled" -> "False"]

\* the documents yaml.safe_load may be given: a mapping that overrides some
\* keys, an empty document, a text that is no YAML
YamlDocuments ==
    { [kind |-> "mapping", mapping |-> [k \in K |-> Overrides[k]]] :
        K \in SUBSET DOMAIN Overrides }
    \cup { [kind |-> "empty", mapping |-> <<>>],
           [kind |-> "invalid", mapping |-> <<>>] }

NoFile == [kind |-> "absent", mapping |-> <<>>]

\* yaml.safe_load(document)
SafeLoad(document) ==
    CASE document.kind = "invalid" ->
             [raised |-> "ValueError", is_dict |-> FALSE, config |-> <<>>]
      [] document.kind = "empty" ->
             [raised |-> None, is_dict |-> FALSE, config |-> <<>>]
      [] OTHER ->
             [raised |-> None, is_dict |-> TRUE, config |-> document.mapping]

\* what github.repo.get_contents(config_path) comes to
RepoAnswers ==
    { [kind |-> "file", document |-> d] : d \in YamlDocuments }
    \cup { [kind |-> k, document |-> NoFile] :
             k \in {"not_found", "directory", "github_error"} }

\* load_config(config_path, github): the file on disk if there is one,
\* else the file of the repository, else the defaults
LoadConfig(on_disk, in_repo, env_at_import) ==
    IF on_disk.kind # "absent"
    THEN SafeLoad(on_disk)
    ELSE CASE in_repo.kind = "file" -> SafeLoad(in_repo.document)
           [] in_repo.kind = "directory" ->
                  [raised |-> "ValueError", is_dict |-> FALSE, config |-> <<>>]
           [] in_repo.kind = "not_found" ->
                  [raised |-> None, is_dict |-> TRUE,
                   config |-> GetDefaultConfig(env_at_import)]
           [] OTHER ->
                  [raised |-> "GithubException", is_dict |-> FALSE,
                   config |-> <<>>]

\* the values of REVIEWBUDDY_API_KEY
ApiKeyValues == {None, "old_api_key", "test_api_key"}

\* a call of load_config, in a process that imported the module earlier
ConfigInit ==
    /\ fn_args \in [name : {"load_config"},
                    on_disk : {NoFile} \cup YamlDocuments,
                    in_repo : RepoAnswers,
                    env_at_import : ApiKeyValues,
                    env_at_call : ApiKeyValues]
    /\ fn_result = NoResult

CallLoadConfig ==
    /\ fn_args.name = "load_config"
    /\ fn_result = NoResult
    /\ fn_result' = [called |-> TRUE,
                     value |-> LoadConfig(fn_args.on_disk, fn_args.in_repo,
                                          fn_args.env_at_import)]
    /\ UNCHANGED <<fn_args, parseVars, mainVars, saVars>>

ConfigSpecInit == ConfigInit /\ MainIdle /\ ParseIdle /\ SAIdle
ConfigNext == CallLoadConfig
SpecConfig == ConfigSpecInit /\ [][ConfigNext]_vars

\* configurations with the sections written out
SelectApiSections ==
    ApiSections
    \cup [present : {TRUE}, api_key : {None, "test-key"},
          api_url : {None, "url"},
          api_endpoint : {None, "https://test-api.com"},
          model_name : {None, "test-model"}]
SelectOllamaSections ==
    {NoOllamaSection}
    \cup [present : {TRUE}, base_url : {None, "http://test-ollama:11434"},
          ollama_model : {None, "test-ollama-model"}]
SelectConfigs ==
    [model_provider : ProviderKinds, api : SelectApiSections,
     ollama : SelectOllamaSections]

\* a call of get_ai_provider
SelectInit ==
    /\ fn_args \in [name : {"get_ai_provider"}, config : SelectConfigs,
                    environ : EnvKeys, probe : ProbeOutcomes]
    /\ fn_result = NoResult

CallGetAiProvider ==
    /\ fn_args.name = "get_ai_provider"
    /\ fn_result = NoResult
    /\ fn_result' = [called |-> TRUE,
                     value |-> GetAiProvider(fn_args.config, fn_args.environ,
                                             fn_args.probe)]
    /\ UNCHANGED <<fn_args, parseVars, mainVars, saVars>>

SelectSpecInit == SelectInit /\ MainIdle /\ ParseIdle /\ SAIdle
SelectNext == CallGetAiProvider
SpecSelect == SelectSpecInit /\ [][SelectNext]_vars

\* a call of is_severity_included
SeverityInit ==
    /\ fn_args \in [name : {"is_severity_included"},
                    severity : SeverityWords, threshold : SeverityWords]
    /\ fn_result = NoResult

CallIsSeverityIncluded ==
    /\ fn_args.name = "is_severity_included"
    /\ fn_result = NoResult
    /\ fn_result' = [called |-> TRUE,
                     value |-> IsSeverityIncluded(fn_args.severity,
                                                  fn_args.threshold)]
    /\ UNCHANGED <<fn_args, parseVars, mainVars, saVars>>

SeveritySpecInit == SeverityInit /\ MainIdle /\ ParseIdle /\ SAIdle
SeverityNext == CallIsSeverityIncluded
SpecSeverity == SeveritySpecInit /\ [][SeverityNext]_vars

-----------------------------------------------------------------------------
(* Properties of provider selection and of the review run (Spec)           *)

Selected == selection.raised # "NotCalled"

\* the availability probe was made and failed
ProbeFailed ==
    /\ Called("get_ai_provider")
    /\ OutcomeOf("get_ai_provider") \in ProbeOutcomes \ {"ok"}

\* C1: with model_provider 'ollama' and a failed probe, get_ai_provider
\* returns an APIProvider and raises nothing, whatever the 'api' section
\* and the environment variable hold
C1_FallbackYieldsApiProvider ==
    (Selected /\ config.model_provider = "ollama" /\ ProbeFailed)
        => /\ selection.raised = None
           /\ selection.provider.class = "APIProvider"

\* the probe failed and APIProvider's constructor raised ValueError for
\* the key or the URL it did not find
C1_FallbackRaises ==
    /\ Selected
    /\ config.model_provider = "ollama"
    /\ ProbeFailed
    /\ selection.raised = "ValueError"
    /\ selection.provider.class = None

\* C2: for a model_provider outside {'api', 'ollama'}, get_ai_provider
\* raises ValueError, makes no probe and constructs no provider
C2_UnknownKindRaises ==
    (Selected /\ config.model_provider \notin {"api", "ollama", None})
        => /\ selection.raised = "ValueError"
           /\ ~selection.probed
           /\ selection.constructed = {}
           /\ selection.provider.class = None

C2_Witness ==
    /\ Selected
    /\ config.model_provider = "invalid"
    /\ selection.raised = "ValueError"
    /\ mpc = "format"

\* C3: whatever the outcome of the model request, analyze_pr returns a
\* dictionary with a 'summary' and a 'suggestions' sequence of
\* {title, description} dictionaries, and on a failure outcome the summary
\* is not empty
C3_AnalyzePrYieldsReviewResult ==
    Called("analyze_pr")
        => /\ {"summary", "suggestions"} \subseteq ai_analysis.keys
           /\ \A i \in 1..Len(ai_analysis.suggestions) :
                  ai_analysis.suggestions[i].is_dict
           /\ OutcomeOf("analyze_pr") # "ok" => ai_analysis.summary # <<>>

\* a failed request answered with a dictionary that has no 'summary'
C3_FailureWithoutSummary ==
    /\ Called("analyze_pr")
    /\ OutcomeOf("analyze_pr") # "ok"
    /\ "summary" \notin ai_analysis.keys

\* C4: once get_pr_files has returned, a run that ends has formatted a
\* comment and called post_review_comment with it
C4_CommentPostedOnceFilesObtained ==
    (mpc = "done" /\ Called("get_pr_files")
                  /\ OutcomeOf("get_pr_files") = "returned")
        => /\ review_comment.raised = None
           /\ Called("post_review_comment")

\* the run ended with status 1 after format_review_comment raised, and
\* nothing was posted
C4_EndedWithoutComment ==
    /\ mpc = "done"
    /\ Called("get_pr_files")
    /\ OutcomeOf("get_pr_files") = "returned"
    /\ review_comment.raised = "TypeError"
    /\ exit_status = "failure"
    /\ ~Called("post_review_comment")

-----------------------------------------------------------------------------
(* Properties of _parse_response (SpecParse)                               *)

Parsed == presult.raised # "NotCalled"

\* C5: a structured response (heading with 'Summary', summary lines,
\* heading with 'Suggestions', N numbered items each followed by its
\* description line) parses to exactly N suggestions in order, suggestion i
\* with the title of item i and a description containing its body, with or
\* without indentation of the lines
C5_StructuredResponseParsed ==
    \A p \in Shapes :
        (Parsed /\ ptext = StructuredText(p))
            => /\ presult.raised = None
               /\ Len(presult.suggestions) = p.n
               /\ \A i \in 1..p.n :
                      /\ presult.suggestions[i].title = ItemTitle(i)
                      /\ Occurs(ItemBody(i), presult.suggestions[i].description)

\* an indented structured response with a suggestion raised ValueError
C5_IndentedResponseRaises ==
    \E p \in Shapes :
        /\ p.indent > 0
        /\ p.n > 0
        /\ Parsed
        /\ ptext = StructuredText(p)
        /\ presult.raised = "ValueError"

\* the same for the responses whose lines start at column 0
C5_Column0ResponseParsed ==
    \A p \in Shapes :
        (Parsed /\ ptext = StructuredText(p) /\ p.indent = 0)
            => /\ presult.raised = None
               /\ Len(presult.suggestions) = p.n
               /\ \A i \in 1..p.n :
                      /\ presult.suggestions[i].title = ItemTitle(i)
                      /\ Occurs(ItemBody(i), presult.suggestions[i].description)

IsBlank(text) == \A i \in 1..Len(text) : text[i] \in Whitespace

\* C6: an empty or whitespace-only response parses to an empty summary and
\* no suggestions, and nothing is raised
C6_BlankResponseParsesEmpty ==
    (Parsed /\ IsBlank(ptext))
        => presult = [raised |-> None, summary |-> <<>>, suggestions |-> <<>>]

C6_Witness ==
    /\ Parsed
    /\ presult.raised = None
    /\ IsBlank(ptext)
    /\ Len(ptext) >= 3
    /\ \E i, j \in 1..Len(ptext) : ptext[i] = "\n" /\ ptext[j] \in {" ", "\t"}

\* the call returned a dictionary
Returned == Parsed /\ presult.raised = None

\* C24: in every result of _parse_response the summary and the description
\* of every suggestion have no leading or trailing whitespace
C24_SummaryAndDescriptionsTrimmed ==
    Returned =>
        /\ presult.summary = Strip(presult.summary)
        /\ \A i \in 1..Len(presult.suggestions) :
               presult.suggestions[i].description =
                   Strip(presult.suggestions[i].description)

\* a returned description ends with a space, the summary being trimmed
C24_DescriptionEndsWithSpace ==
    /\ Returned
    /\ presult.summary = Strip(presult.summary)
    /\ \E i \in 1..Len(presult.suggestions) :
           LET d == presult.suggestions[i].description
           IN  d # <<>> /\ d[Len(d)] = " "

\* a bullet line: '- x', '* x', or a digit followed by '.'
IsBulletLine(raw) ==
    LET line == Strip(raw)
    IN  /\ Len(line) >= 2
        /\ \/ line[1] \in {"-", "*"} /\ line[2] = " "
           \/ line[1] \in Digits /\ line[2] = "."

\* a bullet line without its marker and the whitespace after the marker
AfterMarker(raw) ==
    LET line == Strip(raw)
        marker == IF line[1] \in Digits THEN 2 ELSE 1
    IN  LStrip(SubSeq(line, marker + 1, Len(line)), Whitespace)

BulletLinesOf(text) == SelectSeq(Split(text), IsBulletLine)

\* C25: every bullet line starts a suggestion whose title is the line with
\* only the leading bullet marker and the whitespace after it removed; the
\* rest of the line is kept, also when it begins with a digit, '-', '*' or
\* '.' ('1. 2nd pass needed' gives the title '2nd pass needed')
C25_TitleIsLineWithoutMarker ==
    Returned =>
        /\ Len(presult.suggestions) = Len(BulletLinesOf(ptext))
        /\ \A i \in 1..Len(presult.suggestions) :
               presult.suggestions[i].title = AfterMarker(BulletLinesOf(ptext)[i])

\* '1. 2nd pass needed' gave the title 'nd pass needed'
C25_TitleLosesLeadingDigit ==
    /\ Returned
    /\ ptext = <<"1", ".", " ", "2", "nd", " ", "pass", " ", "needed">>
    /\ Len(presult.suggestions) = 1
    /\ presult.suggestions[1].title = <<"nd", " ", "pass", " ", "needed">>

\* C28: _parse_response is total: for every text it returns a record of
\* summary and suggestions and raises nothing, also when a line containing
\* 'summary' has leading or trailing whitespace, when the same 'summary'
\* line occurs more than once, and when a line is a single digit
C28_ParseResponseIsTotal ==
    Parsed => presult.raised = None

\* the response '1' raised IndexError
C28_SingleDigitLineRaises ==
    /\ Parsed
    /\ ptext = <<"1">>
    /\ presult.raised = "IndexError"

-----------------------------------------------------------------------------
(* Properties of run_static_analysis (SpecSA)                              *)

SAEnded == spc \in {"returned", "raised"}

\* the adapter started the tool and the run of the tool failed
Failed(d) == d.started /\ d.failed
\* the adapter started the tool and read its output
Succeeded(d) == d.started /\ ~d.failed

LastDispatchOf(tool) ==
    CHOOSE i \in 1..Len(dispatched) :
        /\ dispatched[i].tool = tool
        /\ \A j \in (i + 1)..Len(dispatched) : dispatched[j].tool # tool

C8_DisabledReturnsEmptyReport ==
    (spc # "start" /\ ~sa_config.enabled)
        => /\ spc = "returned"
           /\ results = <<>>
           /\ ~workspace.created
           /\ sa_effects = NoEffects
           /\ dispatched = <<>>

\* disabled, with a fetchable python file and tools configured for it
C8_Witness ==
    /\ spc = "returned"
    /\ ~sa_config.enabled
    /\ sa_config.tools.python # <<>>
    /\ \E i \in 1..Len(sa_files) :
         /\ sa_files[i].filename = "a.py"
         /\ sa_files[i].source = "raw_url_ok"

\* C9: when run_static_analysis has ended, by a return or by an exception,
\* the workspace it created does not exist
C9_WorkspaceRemovedAtEnd == SAEnded => ~workspace.exists

\* an exception escaped the run, and the workspace had been created
C9_Witness == spc = "raised" /\ workspace.created /\ ~workspace.exists

\* C10: every entry of the returned report is that of a dispatch made when
\* at least one file of the language existed in the workspace
C10_EntryOnlyWithFilesPresent ==
    spc = "returned"
        => \A k \in 1..Len(results) :
              \E i \in 1..Len(dispatched) :
                  /\ dispatched[i].returned = <<results[k]>>
                  /\ dispatched[i].existing # {}

\* the report holds an entry with no issue for a tool no dispatch of which
\* found a file in the workspace or started a subprocess
C10_EntryWithNoFilePresent ==
    /\ spc = "returned"
    /\ \E k \in 1..Len(results) :
         /\ results[k].issues = <<>>
         /\ \A i \in 1..Len(dispatched) :
              dispatched[i].tool = results[k].tool
                  => dispatched[i].existing = {} /\ ~dispatched[i].started

\* the only dispatch of its tool
OnlyDispatchOfTool(i) ==
    \A j \in 1..Len(dispatched) :
        j # i => dispatched[j].tool # dispatched[i].tool

\* C22: when the run of a tool fails (the executable cannot be started, the
\* subprocess errors, or another exception occurs while the adapter runs or
\* reads the output), the returned report has no entry for that tool
C22_FailedToolHasNoEntry ==
    spc = "returned"
        => \A i \in 1..Len(dispatched) :
              (Failed(dispatched[i]) /\ OnlyDispatchOfTool(i))
                  => ~HasEntry(results, dispatched[i].tool)

\* the run of a tool failed and the report holds its entry with an empty
\* issue list
C22_FailedToolHasEmptyEntry ==
    /\ spc = "returned"
    /\ \E i \in 1..Len(dispatched) :
         /\ Failed(dispatched[i])
         /\ OnlyDispatchOfTool(i)
         /\ HasEntry(results, dispatched[i].tool)
         /\ EntryOf(results, dispatched[i].tool).issues = <<>>

\* the changed files that are not removed and whose content cannot be
\* obtained: the fetch fails, or there is neither raw_url nor content
Unobtainable ==
    { sa_files[i].filename :
        i \in { j \in 1..Len(sa_files) :
                  /\ sa_files[j].status # "removed"
                  /\ sa_files[j].source \in {"raw_url_fails", "none"} } }

\* C23: a non-removed file whose content cannot be obtained is skipped: it
\* is not in the workspace when the tools run, it is given to no tool, and
\* the run goes on with the other files
C23_UnobtainableFileSkipped ==
    /\ spc = "tools" => workspace.files \cap Unobtainable = {}
    /\ \A i \in 1..Len(dispatched) :
           dispatched[i].existing \cap Unobtainable = {}
    /\ ( /\ spc = "raised"
         /\ dispatched = <<>> )
           => \E i \in 1..Len(sa_files) : sa_files[i].source = "unwritable"

\* the fetch of a.py failed, and pylint was started on a.py
C23_UnfetchedFileAnalysed ==
    /\ spc = "returned"
    /\ \E i \in 1..Len(sa_files) :
         /\ sa_files[i].filename = "a.py"
         /\ sa_files[i].source = "raw_url_fails"
    /\ \E i \in 1..Len(dispatched) :
         /\ dispatched[i].tool = "pylint"
         /\ dispatched[i].existing = {"a.py"}
         /\ dispatched[i].started

\* C27: the returned report holds the result of every (language, tool) pair
\* that ran: when one tool is configured for two languages that both have
\* changed files, the results of both dispatches are in the report
C27_EveryDispatchInReport ==
    spc = "returned"
        => \A i \in 1..Len(dispatched) :
              dispatched[i].returned # <<>>
                  => \E k \in 1..Len(results) :
                         <<results[k]>> = dispatched[i].returned

\* eslint found an issue in the javascript file and one in the typescript
\* file, and the report holds the typescript result alone
C27_JavascriptResultReplaced ==
    /\ spc = "returned"
    /\ \E i, j \in 1..Len(dispatched) :
         /\ i < j
         /\ dispatched[i].tool = "eslint"
         /\ dispatched[i].language = "javascript"
         /\ dispatched[i].returned # <<>>
         /\ dispatched[i].returned[1].issues # <<>>
         /\ dispatched[j].tool = "eslint"
         /\ dispatched[j].language = "typescript"
         /\ dispatched[j].returned # <<>>
         /\ dispatched[j].returned[1].issues # <<>>
         /\ <<EntryOf(results, "eslint")>> = dispatched[j].returned
         /\ \A k \in 1..Len(results) : results[k].language # "javascript"

\* C29: whenever run_eslint starts eslint on typescript files, the changed
\* files supplying no eslint configuration, the configuration file in the
\* workspace names the @typescript-eslint parser and plugin, in every
\* order of the dispatches
C29_TypescriptRunHasTypescriptConfig ==
    \A i \in 1..Len(dispatched) :
        ( /\ dispatched[i].tool = "eslint"
          /\ dispatched[i].language = "typescript"
          /\ dispatched[i].started )
        => /\ dispatched[i].eslintrc.parser = "@typescript-eslint/parser"
           /\ "@typescript-eslint" \in dispatched[i].eslintrc.plugins

\* eslint ran on the javascript file first and wrote the configuration;
\* the run on the typescript file wrote none and started eslint with the
\* configuration that names no parser
C29_TypescriptRunWithJavascriptConfig ==
    \E i, j \in 1..Len(dispatched) :
        /\ i < j
        /\ dispatched[i].tool = "eslint"
        /\ dispatched[i].language = "javascript"
        /\ dispatched[i].written = {".eslintrc.json"}
        /\ dispatched[j].tool = "eslint"
        /\ dispatched[j].language = "typescript"
        /\ dispatched[j].started
        /\ dispatched[j].written = {}
        /\ dispatched[j].eslintrc = Eslintrc("javascript")

-----------------------------------------------------------------------------
(* Properties of is_severity_included (SpecSeverity)                       *)

\* the pairs (severity, threshold) with ordinal(severity) >= ordinal(threshold)
\* for the ordinals error 3, warning 2, info 1
AtOrAbove ==
    { <<"error", "error">>, <<"error", "warning">>, <<"error", "info">>,
      <<"warning", "warning">>, <<"warning", "info">>, <<"info", "info">> }

\* C11: for severities s and thresholds t among error, warning and info, in
\* any spelling of upper and lower case, is_severity_included(s, t) is true
\* exactly when the ordinal of s is at least the ordinal of t
C11_IncludedIffAtOrAboveThreshold ==
    \A s, t \in Severities :
        ( /\ fn_result.called
          /\ fn_args.name = "is_severity_included"
          /\ fn_args.severity \in SpellingsOf(s)
          /\ fn_args.threshold \in SpellingsOf(t) )
        => (fn_result.value <=> <<s, t>> \in AtOrAbove)

\* 'Info' did not pass the threshold 'ERROR'
C11_Witness ==
    /\ fn_result.called
    /\ fn_args.name = "is_severity_included"
    /\ fn_args.severity = "Info"
    /\ fn_args.threshold = "ERROR"
    /\ ~fn_result.value

\* the severity strings that are none of error, warning, info in any case
UnknownSeverities ==
    SeverityWords \ UNION {SpellingsOf(w) : w \in Severities}

\* C21: for every severity u outside error, warning, info and every
\* threshold t, is_severity_included(u, t) equals
\* is_severity_included('info', t); under the threshold 'info' an unknown
\* severity is included
C21_UnknownSeverityCountsAsInfo ==
    ( /\ fn_result.called
      /\ fn_args.name = "is_severity_included"
      /\ fn_args.severity \in UnknownSeverities )
    => /\ fn_result.value = IsSeverityIncluded("info", fn_args.threshold)
       /\ fn_args.threshold = "info" => fn_result.value

\* the unknown severity 'fatal' did not pass the threshold 'info'
C21_UnknownSeverityBelowInfo ==
    /\ fn_result.called
    /\ fn_args.name = "is_severity_included"
    /\ fn_args.severity = "fatal"
    /\ fn_args.threshold = "info"
    /\ ~fn_result.value

-----------------------------------------------------------------------------
(* Properties of the tool adapters (SpecSA, SpecSAOutput)                  *)

Adapters == {"pylint", "flake8", "eslint"}

\* the dispatch reached the adapter of the tool
ReachedAdapter(d) ==
    \/ d.tool \in {"pylint", "flake8"} /\ d.language = "python"
    \/ d.tool = "eslint" /\ d.language \in {"javascript", "typescript"}

\* C12: an adapter called when none of its files exists in the workspace
\* returns an empty issue list, starts no subprocess and writes no file
\* into the workspace
C12_NoFilesNoSubprocess ==
    \A i \in 1..Len(dispatched) :
        (ReachedAdapter(dispatched[i]) /\ dispatched[i].existing = {})
            => /\ dispatched[i].returned # <<>>
               /\ dispatched[i].returned[1].issues = <<>>
               /\ ~dispatched[i].started
               /\ dispatched[i].written = {}
               /\ \A k \in 1..Len(sa_effects.started) :
                      sa_effects.started[k].tool = dispatched[i].tool
                          => \E j \in 1..Len(dispatched) :
                                 /\ dispatched[j].tool = dispatched[i].tool
                                 /\ dispatched[j].existing # {}

\* every adapter was called with no file in the workspace, in one run
C12_Witness ==
    /\ spc = "returned"
    /\ workspace.created
    /\ \A t \in Adapters :
         \E i \in 1..Len(dispatched) :
             /\ dispatched[i].tool = t
             /\ ReachedAdapter(dispatched[i])
             /\ dispatched[i].existing = {}
             /\ ~dispatched[i].started

\* the path starts at the root of the filesystem
IsAbsolutePath(path) ==
    path # <<>> /\ Head(path) \in {TempDir, "/mnt/ws", "/private"}

\* the issues of the report
ReportIssues ==
    UNION { { results[k].issues[i] : i \in 1..Len(results[k].issues) } :
              k \in 1..Len(results) }

\* C13: when run_static_analysis has returned, the 'file' of every issue of
\* the report is a path relative to the workspace root, whichever way the
\* tool wrote the path of the workspace file
C13_IssuePathsAreRelative ==
    spc = "returned" => \A issue \in ReportIssues :
                            /\ ~IsAbsolutePath(issue.file)
                            /\ issue.file \in {<<n>> : n \in FileNames}

\* the tool wrote the workspace file under another absolute prefix, and the
\* report holds that path unchanged
C13_AbsolutePathInReport ==
    /\ spc = "returned"
    /\ \E issue \in ReportIssues :
         /\ IsAbsolutePath(issue.file)
         /\ issue.file = PathOf("alias", sa_files[1].filename)

\* C20: when run_static_analysis has returned, every issue of the report
\* has a severity among error, warning and info that is at or above the
\* configured severity_threshold
C20_IssuesAtOrAboveThreshold ==
    spc = "returned" => \A issue \in ReportIssues :
                            /\ issue.severity \in Severities
                            /\ <<issue.severity, sa_config.severity_threshold>>
                                   \in AtOrAbove

\* under the threshold 'error' pylint reported a fatal message, which the
\* report holds as an error
C20_Witness ==
    /\ spc = "returned"
    /\ sa_config.severity_threshold = "error"
    /\ \E k \in 1..Len(results) :
         /\ results[k].tool = "pylint"
         /\ results[k].issues # <<>>
         /\ results[k].issues[1].severity = "error"
    /\ \E i \in 1..Len(dispatched) :
         /\ dispatched[i].tool = "pylint"
         /\ dispatched[i].native = <<"fatal">>

-----------------------------------------------------------------------------
(* Further properties of the review run (Spec)                             *)

\* C14: a run of main whose configuration names a provider kind other than
\* 'api' and 'ollama' formats and posts no review comment and ends with a
\* failure exit status
C14_UnknownKindIsFatal ==
    (mpc = "done" /\ Selected
                  /\ config.model_provider \notin {"api", "ollama", None})
        => /\ exit_status = "failure"
           /\ ~Called("format_review_comment")
           /\ ~Called("post_review_comment")

\* get_ai_provider raised ValueError for the kind 'invalid', and the run
\* posted the comment of the review without a model and ended with success
C14_RunPostsAfterUnknownKind ==
    /\ mpc = "done"
    /\ config.model_provider = "invalid"
    /\ selection.raised = "ValueError"
    /\ ai_analysis = OfflineReview
    /\ Called("post_review_comment")
    /\ OutcomeOf("post_review_comment") = "returned"
    /\ exit_status = "success"

\* analyze_pr made its request, the request succeeded, and the body lacks
\* the expected field (remote: choices[0].message.content; local: response)
EnvelopeLacksField ==
    /\ Called("analyze_pr")
    /\ OutcomeOf("analyze_pr") = "missing_field"
    /\ selection.provider.class = "APIProvider"
           => selection.provider.api_key # None

\* C26: for both providers, when the request succeeds and the body lacks
\* the expected field, analyze_pr returns a failed review whose summary is
\* a non-empty explanation, never the result of parsing an empty text
C26_MissingFieldIsFailedReview ==
    EnvelopeLacksField
        => /\ "summary" \in ai_analysis.keys
           /\ ai_analysis.summary # <<>>
           /\ ai_analysis # ParsedReview(ParseResponse(<<>>))

\* the APIProvider returned the parse of the empty text for a body without
\* the field
C26_ApiProviderParsesEmptyText ==
    /\ EnvelopeLacksField
    /\ selection.provider.class = "APIProvider"
    /\ ai_analysis.keys = {"summary", "suggestions"}
    /\ ai_analysis.summary = <<>>
    /\ ai_analysis.suggestions = <<>>

-----------------------------------------------------------------------------
(* Properties of get_ai_provider (SpecSelect)                              *)

ProviderSelected == fn_result.called /\ fn_args.name = "get_ai_provider"

\* C15: with model_provider 'ollama', an 'ollama' section that gives
\* base_url and ollama_model, and a probe that succeeds, get_ai_provider
\* returns an OllamaProvider with that base_url and that model_name,
\* constructs no APIProvider and does not read the credential
C15_OllamaProviderFromSection ==
    ( /\ ProviderSelected
      /\ fn_args.config.model_provider = "ollama"
      /\ fn_args.probe = "ok"
      /\ fn_args.config.ollama.base_url # None
      /\ fn_args.config.ollama.ollama_model # None )
    => /\ fn_result.value.raised = None
       /\ fn_result.value.provider.class = "OllamaProvider"
       /\ fn_result.value.provider.base_url = fn_args.config.ollama.base_url
       /\ fn_result.value.provider.model_name
              = fn_args.config.ollama.ollama_model
       /\ fn_result.value.constructed = {"OllamaProvider"}
       /\ ~fn_result.value.env_read
       /\ fn_result.value.config = fn_args.config

\* the configuration of test_get_ollama_provider, with the credential set
\* in the environment
C15_Witness ==
    /\ ProviderSelected
    /\ fn_args.config.model_provider = "ollama"
    /\ fn_args.probe = "ok"
    /\ fn_args.environ # None
    /\ fn_args.config.ollama.base_url = "http://test-ollama:11434"
    /\ fn_args.config.ollama.ollama_model = "test-ollama-model"
    /\ fn_result.value.provider.model_name = "test-ollama-model"

\* C16: with model_provider 'api' and an 'api' section that gives the
\* endpoint under 'api_endpoint', a model_name and an api_key,
\* get_ai_provider returns an APIProvider that has the attributes
\* api_endpoint, model_name and api_key, with the configured values
C16_ApiProviderFromSection ==
    ( /\ ProviderSelected
      /\ fn_args.config.model_provider = "api"
      /\ fn_args.config.api.api_endpoint # None
      /\ fn_args.config.api.model_name # None
      /\ fn_args.config.api.api_key # None )
    => /\ fn_result.value.raised = None
       /\ fn_result.value.provider.class = "APIProvider"
       /\ {"api_endpoint", "model_name", "api_key"}
              \subseteq fn_result.value.provider.attributes
       /\ fn_result.value.provider.model_name = fn_args.config.api.model_name
       /\ fn_result.value.provider.api_key = fn_args.config.api.api_key

\* the configuration of test_get_api_provider: the constructor found no
\* 'api_url' and raised ValueError
C16_EndpointKeyNotRead ==
    /\ ProviderSelected
    /\ fn_args.config.model_provider = "api"
    /\ fn_args.config.api.api_endpoint = "https://test-api.com"
    /\ fn_args.config.api.model_name = "test-model"
    /\ fn_args.config.api.api_key = "test-key"
    /\ fn_args.config.api.api_url = None
    /\ fn_result.value.raised = "ValueError"
    /\ fn_result.value.provider.class = None

-----------------------------------------------------------------------------
(* Properties of load_config (SpecConfig)                                  *)

ConfigLoaded == fn_result.called /\ fn_args.name = "load_config"

\* the configuration file load_config reads: the one on disk, else the one
\* of the repository
FileRead ==
    IF fn_args.on_disk.kind # "absent" THEN fn_args.on_disk
    ELSE fn_args.in_repo.document

\* no configuration file on disk, none in the repository
NoFileAnywhere ==
    fn_args.on_disk.kind = "absent" /\ fn_args.in_repo.kind = "not_found"

\* C17: load_config of a configuration file that sets only some keys
\* returns a configuration in which every key the file sets has the file's
\* value and every other key has its default value
C17_CustomConfigKeepsDefaults ==
    (ConfigLoaded /\ FileRead.kind = "mapping")
        => /\ fn_result.value.raised = None
           /\ fn_result.value.is_dict
           /\ \A k \in DOMAIN FileRead.mapping :
                  /\ k \in DOMAIN fn_result.value.config
                  /\ fn_result.value.config[k] = FileRead.mapping[k]
           /\ \A k \in DOMAIN DefaultConfig(fn_args.env_at_import)
                        \ DOMAIN FileRead.mapping :
                  /\ k \in DOMAIN fn_result.value.config
                  /\ fn_result.value.config[k]
                         = DefaultConfig(fn_args.env_at_import)[k]

\* the file of test_load_custom_config: the configuration returned is what
\* the file holds, without 'static_analysis.enabled', and not the merge of
\* the file into the defaults
C17_DefaultsMissing ==
    /\ ConfigLoaded
    /\ FileRead.kind = "mapping"
    /\ DOMAIN FileRead.mapping = {"model_provider", "ollama.ollama_model",
                                  "static_analysis.severity_threshold"}
    /\ fn_result.value.config = FileRead.mapping
    /\ "static_analysis.enabled" \notin DOMAIN fn_result.value.config
    /\ fn_result.value.config
           # DeepMerge(DefaultConfig(fn_args.env_at_import), FileRead.mapping)

\* C18: with no configuration file on disk and none in the repository,
\* load_config returns the defaults, with model_provider 'api',
\* api.model_name 'gpt-4o' and static_analysis.enabled true
C18_DefaultConfigValues ==
    (ConfigLoaded /\ NoFileAnywhere)
        => /\ fn_result.value.raised = None
           /\ fn_result.value.config["model_provider"] = "api"
           /\ fn_result.value.config["api.model_name"] = "gpt-4o"
           /\ fn_result.value.config["static_analysis.enabled"] = "True"

\* the defaults were returned, with the model name 'gpt-4'
C18_DefaultModelIsGpt4 ==
    /\ ConfigLoaded
    /\ NoFileAnywhere
    /\ fn_result.value.raised = None
    /\ fn_result.value.config["model_provider"] = "api"
    /\ fn_result.value.config["static_analysis.enabled"] = "True"
    /\ fn_result.value.config["api.model_name"] = "gpt-4"

\* C19: with no configuration file, api.api_key of the configuration
\* returned is the value the environment variable has when load_config is
\* called, also when it differed at the time the module was imported
C19_ApiKeyReadAtCall ==
    (ConfigLoaded /\ NoFileAnywhere)
        => /\ fn_result.value.raised = None
           /\ fn_result.value.config["api.api_key"] = fn_args.env_at_call

\* the variable was unset at import and set at the call, and the
\* configuration returned holds no key
C19_ApiKeyOfImportTime ==
    /\ ConfigLoaded
    /\ NoFileAnywhere
    /\ fn_args.env_at_import = None
    /\ fn_args.env_at_call = "test_api_key"
    /\ fn_result.value.config["api.api_key"] = None

====
